---- MODULE Spec2Model ----
(***************************************************************************)
(* Model of fascitis-app/app.py: the two clinical scorers (DEMO, LRINEC),  *)
(* the two text-signal providers (keyword scan, OpenAI call), the risk     *)
(* combiner and the Flask handler index() that ties them together.         *)
(*                                                                         *)
(* Numbers.  A Python float is a record [k, v]: k = "num" with v an        *)
(* integer in fixed point, k = "nan", or k = "inf" with v = 1 or -1.       *)
(* None is [k |-> "none"].  Probabilities and text factors are counted in  *)
(* units of 1/ONE (five decimals); laboratory values in tenths.            *)
(* Text is a sequence of one-character strings; an accented letter is      *)
(* written with a trailing apostrophe ("o'" is o-acute).                   *)
(***************************************************************************)
EXTENDS Integers, Sequences, FiniteSets, TLC

\* 1.0 in probability units (the default max_value of clamp).
ONE == 100000

Num(x) == [k |-> "num", v |-> x]
NaN == [k |-> "nan", v |-> 0]
PosInf == [k |-> "inf", v |-> 1]
NegInf == [k |-> "inf", v |-> -1]
None == [k |-> "none", v |-> 0]

\* F(v) with v evaluated once (TLC re-evaluates a LET definition at each use).
Eval(v, F(_)) == CHOOSE r \in {F(x) : x \in {v}} : TRUE

\* ---- Python float comparison: every comparison with nan is False ----
Rank(a) == IF a.k = "inf" THEN a.v ELSE 0

Lt(a, b) ==
    /\ a.k # "nan"
    /\ b.k # "nan"
    /\ \/ Rank(a) < Rank(b)
       \/ a.k = "num" /\ b.k = "num" /\ a.v < b.v

Gt(a, b) == Lt(b, a)

Le(a, b) ==
    /\ a.k # "nan"
    /\ b.k # "nan"
    /\ ~Lt(b, a)

Ge(a, b) == Le(b, a)

\* Python's min(a, b): b replaces a only if b < a.  max(a, b) likewise.
PyMin2(a, b) == IF Lt(b, a) THEN b ELSE a

PyMax2(a, b) == IF Gt(b, a) THEN b ELSE a

RECURSIVE PyMinFrom(_, _, _)
PyMinFrom(best, xs, i) ==
    IF i > Len(xs) THEN best ELSE PyMinFrom(PyMin2(best, xs[i]), xs, i + 1)

\* min(x1, ..., xn) over a non-empty argument list.
PyMin(xs) == PyMinFrom(xs[1], xs, 2)

\* Python truthiness of an Optional[float].
Truthy(x) == x.k # "none" /\ ~(x.k = "num" /\ x.v = 0)

clamp(value, min_value, max_value) ==
    PyMax2(min_value, PyMin2(value, max_value))

\* ---- exp and sigmoid in fixed point ----
\* Sum of the Taylor series of e^a, a >= 0 in thousandths, result in thousandths.
RECURSIVE ExpSeries(_, _, _, _)
ExpSeries(a, n, term, acc) ==
    IF term = 0 THEN acc
    ELSE ExpSeries(a, n + 1, (term * a) \div (1000 * n), acc + term)

exp(a) == ExpSeries(a, 1, 1000, 0)

\* sigmoid(x) = 1 / (1 + exp(-x)); x in probability units, result likewise.
sigmoid(x) ==
    LET m == (IF x < 0 THEN -x ELSE x) \div 100
        e == exp(m)
    IN  IF x < 0
        THEN 10 * ((10000 * 1000 + (1000 + e) \div 2) \div (1000 + e))
        ELSE 10 * ((10000 * e + (1000 + e) \div 2) \div (1000 + e))

\* value / max_value: value a float in tenths, max_value an integer.
Ratio(value, max_value) ==
    IF value.k = "num" THEN Num((value.v * ONE) \div (10 * max_value)) ELSE value

normalize_demo(value, max_value) ==
    IF max_value <= 0 THEN Num(0)
    ELSE clamp(Ratio(value, max_value), Num(0), Num(ONE))

calculate_demo(pcr, wbc, esr) ==
    LET npcr == normalize_demo(pcr, 300)
        nwbc == normalize_demo(wbc, 40)
        nesr == normalize_demo(esr, 150)
        z == (npcr.v * 40 + nwbc.v * 35 + nesr.v * 25) \div 100
    IN  sigmoid(3 * z - 150000)

\* Variant: the two haemoglobin rules are tested independently (if ... if), so a
\* value below 11 collects both.
lrinec_points_hb_overlap(crp, wbc, hb, na, creat, glucose) ==
    LET s_crp == IF Ge(crp, Num(1500)) THEN 4 ELSE 0
        s_wbc == IF Le(Num(150), wbc) /\ Le(wbc, Num(250)) THEN 1
                 ELSE IF Gt(wbc, Num(250)) THEN 2 ELSE 0
        s_hb == (IF Le(hb, Num(135)) THEN 1 ELSE 0)
                + (IF Lt(hb, Num(110)) THEN 2 ELSE 0)
        s_na == IF Lt(na, Num(1350)) THEN 2 ELSE 0
        s_creat == IF Gt(creat, Num(16)) THEN 2 ELSE 0
        s_glucose == IF Gt(glucose, Num(1800)) THEN 1 ELSE 0
    IN  s_crp + s_wbc + s_hb + s_na + s_creat + s_glucose

\* Variant: the leukocyte band 15-25 excludes its end points.
lrinec_points_wbc_open(crp, wbc, hb, na, creat, glucose) ==
    LET s_crp == IF Ge(crp, Num(1500)) THEN 4 ELSE 0
        s_wbc == IF Lt(Num(150), wbc) /\ Lt(wbc, Num(250)) THEN 1
                 ELSE IF Gt(wbc, Num(250)) THEN 2 ELSE 0
        s_hb == IF Le(Num(110), hb) /\ Le(hb, Num(135)) THEN 1
                ELSE IF Lt(hb, Num(110)) THEN 2 ELSE 0
        s_na == IF Lt(na, Num(1350)) THEN 2 ELSE 0
        s_creat == IF Gt(creat, Num(16)) THEN 2 ELSE 0
        s_glucose == IF Gt(glucose, Num(1800)) THEN 1 ELSE 0
    IN  s_crp + s_wbc + s_hb + s_na + s_creat + s_glucose

lrinec_points(crp, wbc, hb, na, creat, glucose) ==
    LET s_crp == IF Ge(crp, Num(1500)) THEN 4 ELSE 0
        s_wbc == IF Le(Num(150), wbc) /\ Le(wbc, Num(250)) THEN 1
                 ELSE IF Gt(wbc, Num(250)) THEN 2 ELSE 0
        s_hb == IF Le(Num(110), hb) /\ Le(hb, Num(135)) THEN 1
                ELSE IF Lt(hb, Num(110)) THEN 2 ELSE 0
        s_na == IF Lt(na, Num(1350)) THEN 2 ELSE 0
        s_creat == IF Gt(creat, Num(16)) THEN 2 ELSE 0
        s_glucose == IF Gt(glucose, Num(1800)) THEN 1 ELSE 0
    IN  s_crp + s_wbc + s_hb + s_na + s_creat + s_glucose

\* Variant: the category thresholds are exclusive.
lrinec_level_of_strict(score) ==
    IF score > 8 THEN "Alto"
    ELSE IF score > 6 THEN "Intermedio"
    ELSE "Bajo"

lrinec_level_of(score) ==
    IF score >= 8 THEN "Alto"
    ELSE IF score >= 6 THEN "Intermedio"
    ELSE "Bajo"

calculate_lrinec(crp, wbc, hb, na, creat, glucose) ==
    LET score == lrinec_points(crp, wbc, hb, na, creat, glucose)
    IN  [score |-> score,
         level |-> lrinec_level_of(score),
         prob |-> sigmoid(((score * 10 - 65) * ONE) \div 15)]

\* ---- keyword provider ----
keywords ==
    << <<"d", "o", "l", "o", "r", " ", "d", "e", "s", "p", "r", "o", "p", "o",
         "r", "c", "i", "o", "n", "a", "d", "o">>,
       <<"c", "r", "e", "p", "i", "t", "a", "c", "i", "o'", "n">>,
       <<"b", "u", "l", "l", "a", "s">>,
       <<"n", "e", "c", "r", "o", "s", "i", "s">>,
       <<"p", "r", "o", "g", "r", "e", "s", "i", "o'", "n", " ", "r", "a'",
         "p", "i", "d", "a">>,
       <<"s", "e", "p", "s", "i", "s">>,
       <<"h", "i", "p", "o", "t", "e", "n", "s", "i", "o'", "n">> >>

UpperChars ==
    <<"A", "B", "C", "D", "E", "F", "G", "H", "I", "J", "K", "L", "M", "N",
      "O", "P", "Q", "R", "S", "T", "U", "V", "W", "X", "Y", "Z", "O'", "A'">>

LowerChars ==
    <<"a", "b", "c", "d", "e", "f", "g", "h", "i", "j", "k", "l", "m", "n",
      "o", "p", "q", "r", "s", "t", "u", "v", "w", "x", "y", "z", "o'", "a'">>

lower_char(c) ==
    IF \E i \in 1..Len(UpperChars) : UpperChars[i] = c
    THEN LowerChars[CHOOSE i \in 1..Len(UpperChars) : UpperChars[i] = c]
    ELSE c

\* str.lower()
lower(text) == [i \in 1..Len(text) |-> lower_char(text[i])]

\* kw in t
Contains(t, kw) ==
    \E i \in 1..(Len(t) - Len(kw) + 1) : SubSeq(t, i, i + Len(kw) - 1) = kw

RECURSIVE CountHits(_, _)
CountHits(t, n) ==
    IF n = 0 THEN 0
    ELSE CountHits(t, n - 1) + (IF Contains(t, keywords[n]) THEN 1 ELSE 0)

\* Number of places of t where kw starts.
CountAt(t, kw) ==
    Cardinality({i \in 1..(Len(t) - Len(kw) + 1) : SubSeq(t, i, i + Len(kw) - 1) = kw})

RECURSIVE CountOccurrences(_, _)
CountOccurrences(t, n) ==
    IF n = 0 THEN 0 ELSE CountOccurrences(t, n - 1) + CountAt(t, keywords[n])

\* Variant: every occurrence of a keyword counts.
keywords_factor_per_occurrence(text) ==
    LET hits(t) == CountOccurrences(t, Len(keywords))
    IN  clamp(Num(5000 * Eval(lower(text), hits)), Num(0), Num(30000))

\* Variant: the factor is capped at 1.0 instead of 0.3.
keywords_factor_uncapped(text) ==
    LET hits(t) == CountHits(t, Len(keywords))
    IN  clamp(Num(5000 * Eval(lower(text), hits)), Num(0), Num(ONE))

keywords_factor(text) ==
    LET hits(t) == CountHits(t, Len(keywords))
    IN  clamp(Num(5000 * Eval(lower(text), hits)), Num(0), Num(30000))

\* ---- risk combiner ----
\* Variant: the blend tests the factor's truthiness, so a factor of 0 is ignored.
combine_risk_truthy(base_prob, text_factor, ai_active) ==
    IF ai_active /\ Truthy(text_factor)
    THEN clamp(Num((7 * base_prob + 3 * text_factor.v) \div 10), Num(0), Num(ONE)).v
    ELSE IF Truthy(text_factor)
    THEN clamp(Num(base_prob + text_factor.v), Num(0), Num(ONE)).v
    ELSE base_prob

combine_risk(base_prob, text_factor, ai_active) ==
    IF ai_active /\ text_factor.k # "none"
    THEN clamp(Num((7 * base_prob + 3 * text_factor.v) \div 10), Num(0), Num(ONE)).v
    ELSE IF Truthy(text_factor)
    THEN clamp(Num(base_prob + text_factor.v), Num(0), Num(ONE)).v
    ELSE base_prob

\* Variant: the tier thresholds are exclusive.
risk_label_strict(prob) ==
    IF prob > 60000 THEN <<"Alto", "danger", "#dc3545">>
    ELSE IF prob > 30000 THEN <<"Intermedio", "warning", "#ffc107">>
    ELSE <<"Bajo", "success", "#198754">>

risk_label(prob) ==
    IF prob >= 60000 THEN <<"Alto", "danger", "#dc3545">>
    ELSE IF prob >= 30000 THEN <<"Intermedio", "warning", "#ffc107">>
    ELSE <<"Bajo", "success", "#198754">>

\* ---- float(str) ----
Digits == <<"0", "1", "2", "3", "4", "5", "6", "7", "8", "9">>

IsDigit(c) == \E i \in 1..10 : Digits[i] = c

DigitVal(c) == (CHOOSE i \in 1..10 : Digits[i] = c) - 1

IsSpace(c) == c \in {" ", "\n", "\t"}

RECURSIVE LStrip(_)
LStrip(s) == IF s # <<>> /\ IsSpace(Head(s)) THEN LStrip(Tail(s)) ELSE s

RECURSIVE RStrip(_)
RStrip(s) ==
    IF s # <<>> /\ IsSpace(s[Len(s)]) THEN RStrip(SubSeq(s, 1, Len(s) - 1)) ELSE s

\* str.strip()
strip(s) == RStrip(LStrip(s))

\* str.replace(a, b) for one-character a and b
replace(s, a, b) == [i \in 1..Len(s) |-> IF s[i] = a THEN b ELSE s[i]]

RECURSIVE IntVal(_, _, _)
IntVal(ds, i, acc) ==
    IF i > Len(ds) THEN acc ELSE IntVal(ds, i + 1, 10 * acc + DigitVal(ds[i]))

\* The unsigned part of a float literal, in lower case:
\* digits [. digits] | . digits | inf | infinity | nan.
\* [ok |-> FALSE] stands for ValueError.
ParseBody(sgn, body, places) ==
    LET dots == {i \in 1..Len(body) : body[i] = "."}
        dot == IF dots = {} THEN Len(body) + 1 ELSE CHOOSE i \in dots : TRUE
        ip == SubSeq(body, 1, dot - 1)
        fp == SubSeq(body, dot + 1, Len(body))
        fpad == [i \in 1..places |-> IF i <= Len(fp) THEN fp[i] ELSE "0"]
    IN  IF body \in {<<"i", "n", "f">>, <<"i", "n", "f", "i", "n", "i", "t", "y">>}
        THEN [ok |-> TRUE, val |-> IF sgn = 1 THEN PosInf ELSE NegInf]
        ELSE IF body = <<"n", "a", "n">>
        THEN [ok |-> TRUE, val |-> NaN]
        ELSE IF /\ Cardinality(dots) <= 1
                /\ Len(ip) + Len(fp) >= 1
                /\ \A i \in 1..Len(body) : i = dot \/ IsDigit(body[i])
        THEN [ok |-> TRUE,
              val |-> Num(sgn * (IntVal(ip, 1, 0) * 10 ^ places + IntVal(fpad, 1, 0)))]
        ELSE [ok |-> FALSE, val |-> None]

ParseSigned(t, places) ==
    LET signed == t # <<>> /\ Head(t) \in {"+", "-"}
        sgn == IF signed /\ Head(t) = "-" THEN -1 ELSE 1
        P(body) == ParseBody(sgn, body, places)
    IN  Eval(lower(IF signed THEN Tail(t) ELSE t), P)

\* float(s), keeping `places` decimals; surrounding whitespace is ignored.
float(s, places) ==
    LET P(t) == ParseSigned(t, places)
    IN  Eval(strip(s), P)

VARIABLES
    OPENAI_API_KEY,   \* os.getenv("OPENAI_API_KEY"): "None" or the key string
    OpenAI,           \* TRUE iff the openai import succeeded (else OpenAI = None)
    pc,               \* where index() stands
    request,          \* [method, form]
    model,            \* locals of index()
    base_prob,
    lrinec_score,
    lrinec_level,
    ai_active,
    tfactor,
    result,
    response,         \* what index() hands back to Flask
    flashed,          \* messages passed to flash()
    scorer_calls,     \* history: every call of calculate_demo / calculate_lrinec
    provider_calls,   \* history: every call of a text-signal provider
    create_calls,     \* history: number of client.responses.create invocations
    ext_failed,       \* history: the external text-inference step failed
    fn,               \* unit harness: the function under test
    args,             \* unit harness: its arguments
    ret               \* unit harness: its return value

config == <<OPENAI_API_KEY, OpenAI>>

locals == <<model, base_prob, lrinec_score, lrinec_level, ai_active, tfactor, result>>

history == <<scorer_calls, provider_calls, create_calls, ext_failed>>

unit == <<fn, args, ret>>

vars == <<config, pc, request, locals, response, flashed, history, unit>>

\* bool(OPENAI_API_KEY and OpenAI)
AiConfigured == OPENAI_API_KEY \notin {"None", ""} /\ OpenAI

\* ---- external provider ----
\* env is what the openai library does on this call: whether OpenAI(...) raises,
\* whether responses.create raises (network error, timeout, bad argument), and
\* the output_text of the response otherwise.
\* Variant: a failed responses.create is attempted a second time.
ai_text_factor_retry(text, env) ==
    IF ~AiConfigured
    THEN [raised |-> FALSE, value |-> None, creates |-> 0, failed |-> FALSE]
    ELSE IF env.ctor = "raises"
    THEN [raised |-> TRUE, value |-> None, creates |-> 0, failed |-> TRUE]
    ELSE IF env.create = "raises"
    THEN [raised |-> FALSE, value |-> None, creates |-> 2, failed |-> TRUE]
    ELSE LET value == replace(strip(env.output_text), ",", ".")
             Returned(parsed) ==
                 IF parsed.ok
                 THEN [raised |-> FALSE,
                       value |-> clamp(parsed.val, Num(0), Num(ONE)),
                       creates |-> 1,
                       failed |-> FALSE]
                 ELSE [raised |-> FALSE, value |-> None, creates |-> 1, failed |-> TRUE]
         IN  Eval(float(value, 5), Returned)

ai_text_factor(text, env) ==
    IF ~AiConfigured
    THEN [raised |-> FALSE, value |-> None, creates |-> 0, failed |-> FALSE]
    ELSE IF env.ctor = "raises"
    THEN [raised |-> TRUE, value |-> None, creates |-> 0, failed |-> TRUE]
    ELSE IF env.create = "raises"
    THEN [raised |-> FALSE, value |-> None, creates |-> 1, failed |-> TRUE]
    ELSE LET value == replace(strip(env.output_text), ",", ".")
             Returned(parsed) ==
                 IF parsed.ok
                 THEN [raised |-> FALSE,
                       value |-> clamp(parsed.val, Num(0), Num(ONE)),
                       creates |-> 1,
                       failed |-> FALSE]
                 ELSE [raised |-> FALSE, value |-> None, creates |-> 1, failed |-> TRUE]
         IN  Eval(float(value, 5), Returned)

\* ---- requests the client may send ----
\* Marks a form field the client did not send (never a value of the form itself).
ABSENT == <<"<absent>">>

BadTexts == {ABSENT, <<"a", "b", "c">>, <<"-", "1">>, <<"n", "a", "n">>, <<"i", "n", "f">>}

NoteTexts ==
    {<<>>,
     <<"S", "e", "p", "s", "i", "s", ";", " ", "l", "u", "e", "g", "o", " ", "s", "e", "p", "s", "i", "s", " ", "y", " ", "B", "U", "L", "L", "A", "S">>}

DemoChoices ==
    [model : {ABSENT, <<"d", "e", "m", "o">>},
     notes : NoteTexts,
     pcr : {<<"0">>, <<"1", "5", "0">>, <<"3", "0", "0">>, <<"4", "5", "0">>} \cup BadTexts,
     wbc : {<<"0">>, <<"2", "0">>, <<"4", "0">>} \cup BadTexts,
     esr : {<<"0">>, <<"7", "5">>, <<"1", "5", "0">>} \cup BadTexts]

LrinecValid ==
    [model : {<<"l", "r", "i", "n", "e", "c">>},
     notes : NoteTexts,
     crp : {<<"1", "4", "9", ".", "9">>, <<"1", "5", "0">>},
     wbc : {<<"1", "4", ".", "9">>, <<"1", "5">>, <<"2", "5">>, <<"2", "5", ".", "1">>},
     hb : {<<"1", "0", ".", "9">>, <<"1", "1">>, <<"1", "3", ".", "5">>, <<"1", "3", ".", "6">>},
     na : {<<"1", "3", "4", ".", "9">>, <<"1", "3", "5">>},
     creat : {<<"1", ".", "6">>, <<"1", ".", "7">>},
     glucose : {<<"1", "8", "0">>, <<"1", "8", "0", ".", "1">>}]

LrinecNominal ==
    [model |-> <<"l", "r", "i", "n", "e", "c">>, notes |-> <<>>, crp |-> <<"1", "5", "0">>, wbc |-> <<"2", "0">>, hb |-> <<"1", "0">>,
     na |-> <<"1", "3", "0">>, creat |-> <<"2", ".", "0">>, glucose |-> <<"2", "0", "0">>]

LabFields == {"crp", "wbc", "hb", "na", "creat", "glucose"}

\* The nominal LRINEC form with one or two fields replaced by a bad text.
LrinecBad ==
    {[LrinecNominal EXCEPT ![f] = a, ![g] = b] :
        f \in LabFields, g \in LabFields, a \in BadTexts, b \in BadTexts}

\* The form the client sends: the chosen fields without the absent ones.
FormOf(choice) ==
    [f \in {g \in DOMAIN choice : choice[g] # ABSENT} |-> choice[f]]

Requests ==
    {[method |-> "GET", form |-> FormOf([model |-> ABSENT])]}
    \cup {[method |-> "POST", form |-> FormOf(c)] : c \in DemoChoices}
    \cup {[method |-> "POST", form |-> FormOf(c)] : c \in LrinecValid \cup LrinecBad}

\* What the openai library may do on one call of ai_text_factor.
Replies ==
    {<<"0", ".", "2">>,
     <<" ", "0", ",", "8", "5", "\n">>,
     <<"1", ".", "5">>,
     <<"0">>,
     <<"a", "b", "c">>,
     <<>>,
     <<"n", "a", "n">>}

Envs ==
    {[ctor |-> "raises", create |-> "ok", output_text |-> <<>>],
     [ctor |-> "ok", create |-> "raises", output_text |-> <<>>]}
    \cup {[ctor |-> "ok", create |-> "ok", output_text |-> r] : r \in Replies}

\* ---- the handler index() ----
NoResult == [k |-> "none"]

NoResponse == [kind |-> "none"]

NoCall == [fn |-> "none"]

\* request.form.get(name, default)
Get(form, name, default) == IF name \in DOMAIN form THEN form[name] ELSE default

Text == Get(request.form, "notes", <<>>)

Field(name) == float(Get(request.form, name, <<>>), 1)

\* round(n / d) to the nearest integer, ties to even (Python's round)
round(n, d) ==
    LET q == n \div d
        r == n % d
    IN  IF 2 * r > d \/ (2 * r = d /\ q % 2 = 1) THEN q + 1 ELSE q

\* except ValueError: flash(...); return redirect(url_for("index"))
Reject ==
    /\ flashed' = Append(flashed, "Valores invalidos o negativos.")
    /\ response' = [kind |-> "redirect", to |-> "index"]
    /\ pc' = "responded"
    /\ UNCHANGED <<base_prob, lrinec_score, lrinec_level, scorer_calls>>

HandlerInit ==
    /\ pc = "idle"
    /\ request = [method |-> "GET", form |-> FormOf([model |-> ABSENT])]
    /\ model = <<"d", "e", "m", "o">>
    /\ base_prob = None
    /\ lrinec_score = None
    /\ lrinec_level = "None"
    /\ ai_active = FALSE
    /\ tfactor = None
    /\ result = NoResult
    /\ response = NoResponse
    /\ flashed = <<>>
    /\ scorer_calls = <<>>
    /\ provider_calls = <<>>
    /\ create_calls = 0
    /\ ext_failed = FALSE

UnitIdle ==
    /\ fn = "none"
    /\ args = <<>>
    /\ ret = NoCall

Init ==
    /\ OPENAI_API_KEY \in {"None", "sk-test"}
    /\ OpenAI \in BOOLEAN
    /\ HandlerInit
    /\ UnitIdle

\* A client sends a request; index() starts with its locals at their defaults.
Request ==
    /\ pc = "idle"
    /\ \E req \in Requests : request' = req
    /\ pc' = "received"
    /\ UNCHANGED <<config, locals, response, flashed, history, unit>>

\* GET: nothing is computed, the empty page is rendered.
index_get ==
    /\ pc = "received"
    /\ request.method = "GET"
    /\ response' = [kind |-> "render", result |-> result, model |-> model,
                    lrinec_score |-> lrinec_score, lrinec_level |-> lrinec_level,
                    form_values |-> FormOf([model |-> ABSENT]),
                    ai_active |-> AiConfigured]
    /\ pc' = "responded"
    /\ UNCHANGED <<config, request, locals, flashed, history, unit>>

\* POST, model == "demo": parse and validate the three labs, run calculate_demo.
index_post_demo ==
    /\ pc = "received"
    /\ request.method = "POST"
    /\ model' = Get(request.form, "model", <<"d", "e", "m", "o">>)
    /\ model' = <<"d", "e", "m", "o">>
    /\ \E pcr \in {Field("pcr")}, wbc \in {Field("wbc")}, esr \in {Field("esr")} :
           IF /\ pcr.ok /\ wbc.ok /\ esr.ok
              /\ ~Lt(PyMin(<<pcr.val, wbc.val, esr.val>>), Num(0))
           THEN /\ base_prob' = Num(calculate_demo(pcr.val, wbc.val, esr.val))
                /\ scorer_calls' = Append(scorer_calls,
                       [fn |-> "calculate_demo", args |-> <<pcr.val, wbc.val, esr.val>>])
                /\ pc' = "scored"
                /\ UNCHANGED <<lrinec_score, lrinec_level, response, flashed>>
           ELSE Reject
    /\ UNCHANGED <<config, request, ai_active, tfactor, result,
                   provider_calls, create_calls, ext_failed, unit>>

\* POST, any other model: parse and validate the six labs, run calculate_lrinec.
index_post_lrinec ==
    /\ pc = "received"
    /\ request.method = "POST"
    /\ model' = Get(request.form, "model", <<"d", "e", "m", "o">>)
    /\ model' # <<"d", "e", "m", "o">>
    /\ \E crp \in {Field("crp")}, wbc \in {Field("wbc")}, hb \in {Field("hb")},
          na \in {Field("na")}, creat \in {Field("creat")},
          glucose \in {Field("glucose")} :
           IF /\ crp.ok /\ wbc.ok /\ hb.ok /\ na.ok /\ creat.ok /\ glucose.ok
              /\ ~Lt(PyMin(<<crp.val, wbc.val, hb.val, na.val, creat.val,
                             glucose.val>>), Num(0))
           THEN \E r \in {calculate_lrinec(crp.val, wbc.val, hb.val, na.val,
                                            creat.val, glucose.val)} :
                /\ lrinec_score' = Num(r.score)
                /\ lrinec_level' = r.level
                /\ base_prob' = Num(r.prob)
                /\ scorer_calls' = Append(scorer_calls,
                       [fn |-> "calculate_lrinec",
                        args |-> <<crp.val, wbc.val, hb.val, na.val, creat.val,
                                   glucose.val>>])
                /\ pc' = "scored"
                /\ UNCHANGED <<response, flashed>>
           ELSE Reject
    /\ UNCHANGED <<config, request, ai_active, tfactor, result,
                   provider_calls, create_calls, ext_failed, unit>>

\* ai_active false: tfactor = keywords_factor(text)
index_keywords ==
    /\ pc = "scored"
    /\ ai_active' = AiConfigured
    /\ ~ai_active'
    /\ tfactor' = keywords_factor(Text)
    /\ provider_calls' = Append(provider_calls, "keywords_factor")
    /\ pc' = "signalled"
    /\ UNCHANGED <<config, request, model, base_prob, lrinec_score, lrinec_level,
                   result, response, flashed, scorer_calls, create_calls,
                   ext_failed, unit>>

\* ai_active true: tfactor = ai_text_factor(text); an exception it lets through
\* is caught by neither except clause of index() and ends the request.
index_ai(env) ==
    /\ pc = "scored"
    /\ ai_active' = AiConfigured
    /\ ai_active'
    /\ \E r \in {ai_text_factor(Text, env)} :
           /\ provider_calls' = Append(provider_calls, "ai_text_factor")
           /\ create_calls' = create_calls + r.creates
           /\ ext_failed' = r.failed
           /\ IF r.raised
              THEN /\ response' = [kind |-> "error", status |-> 500]
                   /\ pc' = "responded"
                   /\ UNCHANGED tfactor
              ELSE /\ tfactor' = r.value
                   /\ pc' = "signalled"
                   /\ UNCHANGED response
    /\ UNCHANGED <<config, request, model, base_prob, lrinec_score, lrinec_level,
                   result, flashed, scorer_calls, unit>>

\* combine_risk, risk_label, the result dict and render_template
index_render ==
    /\ pc = "signalled"
    /\ \E final_prob \in {combine_risk(base_prob.v, tfactor, ai_active)} :
       LET label == risk_label(final_prob)
           res == [k |-> "dict",
                   prob |-> final_prob,
                   percent |-> round(final_prob, 100),
                   level |-> label[1],
                   color_class |-> label[2],
                   color_hex |-> label[3],
                   inputs |-> scorer_calls[Len(scorer_calls)].args]
       IN  /\ result' = res
           /\ response' = [kind |-> "render", result |-> res, model |-> model,
                           lrinec_score |-> lrinec_score,
                           lrinec_level |-> lrinec_level,
                           form_values |-> request.form,
                           ai_active |-> AiConfigured]
    /\ pc' = "responded"
    /\ UNCHANGED <<config, request, model, base_prob, lrinec_score, lrinec_level,
                   ai_active, tfactor, flashed, history, unit>>

\* index() has returned: its locals are gone, the next request starts afresh.
index_return ==
    /\ pc = "responded"
    /\ pc' = "idle"
    /\ request' = [method |-> "GET", form |-> FormOf([model |-> ABSENT])]
    /\ model' = <<"d", "e", "m", "o">>
    /\ base_prob' = None
    /\ lrinec_score' = None
    /\ lrinec_level' = "None"
    /\ ai_active' = FALSE
    /\ tfactor' = None
    /\ result' = NoResult
    /\ response' = NoResponse
    /\ flashed' = <<>>
    /\ scorer_calls' = <<>>
    /\ provider_calls' = <<>>
    /\ create_calls' = 0
    /\ ext_failed' = FALSE
    /\ UNCHANGED <<config, unit>>

Next ==
    \/ Request
    \/ index_get
    \/ index_post_demo
    \/ index_post_lrinec
    \/ index_keywords
    \/ \E env \in Envs : index_ai(env)
    \/ index_render
    \/ index_return

Spec == Init /\ [][Next]_vars

\* ---- unit harness: each pure function applied to arguments drawn in UnitInit ----
MaxPieces == 3

Pieces ==
    {<<"D", "o", "l", "o", "r", " ", "d", "e", "s", "p", "r", "o", "p", "o", "r", "c", "i", "o", "n", "a", "d", "o", ",", " ", "c", "r", "e", "p", "i", "t", "a", "c", "i", "o'", "n">>,
     <<"B", "U", "L", "L", "A", "S", " ", "y", " ", "n", "e", "c", "r", "o", "s", "i", "s">>,
     <<"P", "R", "O", "G", "R", "E", "S", "I", "O'", "N", " ", "R", "A'", "P", "I", "D", "A", ";", " ", "s", "e", "p", "s", "i", "s", ";", " ", "h", "i", "p", "o", "t", "e", "n", "s", "i", "o'", "n">>,
     <<"S", "e", "p", "s", "i", "s">>,
     <<" ">>,
     <<"s", "e", "p">>}

RECURSIVE TextsOfLen(_)
TextsOfLen(n) ==
    IF n = 0 THEN {<<>>}
    ELSE {p \o t : p \in Pieces, t \in TextsOfLen(n - 1)}

\* Notes of at most MaxPieces pieces.
Texts == UNION {TextsOfLen(n) : n \in 0..MaxPieces}

Probs == {k * 5000 : k \in 0..20}

Signals == {None} \cup {Num(q) : q \in Probs}

CombineArgs == [base : Probs, t : Signals, ai : BOOLEAN]

LabelArgs == [prob : Probs \cup {29999, 59999}]

LrinecArgs ==
    [crp : {0, 1499, 1500},
     wbc : {0, 149, 150, 200, 250, 251},
     hb : {100, 109, 110, 120, 135, 136},
     na : {1300, 1349, 1350, 1400},
     creat : {10, 16, 17, 20},
     glucose : {1000, 1800, 1801, 2000}]

KeywordArgs == [text : Texts]

KeywordPathArgs == [base : {0, 25000, 29999, 50000, 65000, 80000, 100000}, text : Texts]

UnitInit ==
    /\ OPENAI_API_KEY = "None"
    /\ OpenAI = FALSE
    /\ HandlerInit
    /\ ret = NoCall
    /\ \/ fn = "combine_risk" /\ args \in CombineArgs
       \/ fn = "risk_label" /\ args \in LabelArgs
       \/ fn = "calculate_lrinec" /\ args \in LrinecArgs
       \/ fn = "keywords_factor" /\ args \in KeywordArgs
       \/ fn = "keyword_path" /\ args \in KeywordPathArgs

Return(v) ==
    /\ ret = NoCall
    /\ ret' = [fn |-> fn, v |-> v]
    /\ UNCHANGED <<config, pc, request, locals, response, flashed, history, fn, args>>

call_combine_risk ==
    /\ fn = "combine_risk"
    /\ Return(combine_risk(args.base, args.t, args.ai))

call_risk_label ==
    /\ fn = "risk_label"
    /\ Return(risk_label(args.prob))

call_calculate_lrinec ==
    /\ fn = "calculate_lrinec"
    /\ Return(calculate_lrinec(Num(args.crp), Num(args.wbc), Num(args.hb),
                               Num(args.na), Num(args.creat), Num(args.glucose)))

call_keywords_factor ==
    /\ fn = "keywords_factor"
    /\ Return(keywords_factor(args.text))

\* index() lines 171-172 with the external variant inactive
call_keyword_path ==
    /\ fn = "keyword_path"
    /\ Return(combine_risk(args.base, keywords_factor(args.text), FALSE))

UnitNext ==
    \/ call_combine_risk
    \/ call_risk_label
    \/ call_calculate_lrinec
    \/ call_keywords_factor
    \/ call_keyword_path

SpecUnit == UnitInit /\ [][UnitNext]_vars

\* ======================= properties =======================
\* clamp(x, 0, 1) as the specification words it.
Clamp01(x) == IF x < 0 THEN 0 ELSE IF x > ONE THEN ONE ELSE x

Min(a, b) == IF a < b THEN a ELSE b

\* C1: combine_risk follows exactly three cases: external active and signal
\* present (0 included) gives clamp(0.7*base + 0.3*signal); otherwise a present
\* non-zero signal gives clamp(base + signal); otherwise base unchanged.
\* (0.5, 0.2, true) gives 0.41, (0.5, 0.2, false) gives 0.7, (0.9, absent, false)
\* gives 0.9.
C1_CombineThreeCases ==
    ret.fn = "combine_risk" =>
        LET b == args.base
            t == args.t
            present == t.k # "none"
            blend == args.ai /\ present
            bump == ~blend /\ present /\ t.v # 0
        IN  /\ blend => ret.v = Clamp01((7 * b + 3 * t.v) \div 10)
            /\ bump => ret.v = Clamp01(b + t.v)
            /\ (~blend /\ ~bump) => ret.v = b
            /\ (b = 50000 /\ t = Num(20000) /\ args.ai) => ret.v = 41000
            /\ (b = 50000 /\ t = Num(20000) /\ ~args.ai) => ret.v = 70000
            /\ (b = 90000 /\ t = None /\ ~args.ai) => ret.v = 90000

\* C1 witness: external active with a present signal of 0 blends 0.5 down to 0.35.
C1_Witness ==
    /\ ret.fn = "combine_risk"
    /\ args.ai
    /\ args.t = Num(0)
    /\ args.base = 50000
    /\ ret.v = 35000

\* C2: when the external variant is active, any failure of the external
\* text-inference step makes ai_text_factor return None without raising, and the
\* request still renders a result whose probability is the base probability.
C2_ExternalFailureDegrades ==
    (pc = "responded" /\ ext_failed) =>
        /\ tfactor = None
        /\ response.kind = "render"
        /\ response.result.k = "dict"
        /\ response.result.prob = base_prob.v

\* C3: a POST with a missing, non-numeric, negative or non-finite lab field is
\* rejected before any scorer runs: no scorer is ever called with a negative or
\* non-finite argument, and a rejected request carries no result.
C3_InvalidLabsRejected ==
    /\ \A i \in 1..Len(scorer_calls) :
           \A j \in 1..Len(scorer_calls[i].args) :
               /\ scorer_calls[i].args[j].k = "num"
               /\ scorer_calls[i].args[j].v >= 0
    /\ response.kind = "redirect" => (result = NoResult /\ scorer_calls = <<>>)

\* C4 as claimed: for non-negative labs the LRINEC score is an integer in [0, 10].
C4_ScoreWithin10 ==
    ret.fn = "calculate_lrinec" => ret.v.score \in 0..10

\* C4 as amended: for non-negative labs the LRINEC score is an integer in [0, 13].
C4_ScoreWithin13 ==
    ret.fn = "calculate_lrinec" => ret.v.score \in 0..13

\* C4 witness: every rule at its highest gives 13.
C4_Witness ==
    /\ ret.fn = "calculate_lrinec"
    /\ ret.v.score = 13

\* C5: the LRINEC score is the sum of independent per-variable contributions,
\* each variable triggering at most one rule; (150,20,10,130,2.0,200) scores 12,
\* category High, and (0,0,12,140,1.0,100) scores 1, category Low.
C5_ScoreIsSumOfRules ==
    ret.fn = "calculate_lrinec" =>
        LET crp == IF args.crp >= 1500 THEN 4 ELSE 0
            wbc == IF args.wbc > 250 THEN 2
                   ELSE IF args.wbc >= 150 THEN 1 ELSE 0
            hb == IF args.hb < 110 THEN 2
                  ELSE IF args.hb <= 135 THEN 1 ELSE 0
            na == IF args.na < 1350 THEN 2 ELSE 0
            creat == IF args.creat > 16 THEN 2 ELSE 0
            glucose == IF args.glucose > 1800 THEN 1 ELSE 0
        IN  /\ ret.v.score = crp + wbc + hb + na + creat + glucose
            /\ args = [crp |-> 1500, wbc |-> 200, hb |-> 100, na |-> 1300,
                       creat |-> 20, glucose |-> 2000]
                   => (ret.v.score = 12 /\ ret.v.level = "Alto")
            /\ args = [crp |-> 0, wbc |-> 0, hb |-> 120, na |-> 1400,
                       creat |-> 10, glucose |-> 1000]
                   => (ret.v.score = 1 /\ ret.v.level = "Bajo")

\* C5 witness: the uncapped example has been scored 12.
C5_Witness ==
    /\ ret.fn = "calculate_lrinec"
    /\ args = [crp |-> 1500, wbc |-> 200, hb |-> 100, na |-> 1300,
               creat |-> 20, glucose |-> 2000]
    /\ ret.v.score = 12

\* C6: the LRINEC category depends on the score alone, with inclusive lower
\* boundaries: >= 8 High, 6..7 Intermediate, < 6 Low (5 Low, 6 and 7
\* Intermediate, 8 High).
C6_CategoryFromScore ==
    ret.fn = "calculate_lrinec" =>
        /\ ret.v.score >= 8 => ret.v.level = "Alto"
        /\ (6 <= ret.v.score /\ ret.v.score < 8) => ret.v.level = "Intermedio"
        /\ ret.v.score < 6 => ret.v.level = "Bajo"
        /\ ret.v.level \in {"Alto", "Intermedio", "Bajo"}

\* C6 witness: a score exactly at the boundary 8 is High.
C6_Witness ==
    /\ ret.fn = "calculate_lrinec"
    /\ ret.v.score = 8
    /\ ret.v.level = "Alto"

\* C7: risk_label maps every probability to exactly one tier with its style and
\* colour: >= 0.6 High/danger/#dc3545, 0.3 <= p < 0.6 Intermediate/warning/#ffc107,
\* < 0.3 Low/success/#198754; 0.6 and 0.3 belong to the upper tier.
C7_RiskLabelTiers ==
    ret.fn = "risk_label" =>
        /\ args.prob >= 60000 => ret.v = <<"Alto", "danger", "#dc3545">>
        /\ (30000 <= args.prob /\ args.prob < 60000)
               => ret.v = <<"Intermedio", "warning", "#ffc107">>
        /\ args.prob < 30000 => ret.v = <<"Bajo", "success", "#198754">>

\* C7 witness: exactly 0.6 has been labelled High.
C7_Witness ==
    /\ ret.fn = "risk_label"
    /\ args.prob = 60000
    /\ ret.v[1] = "Alto"

\* Places of t where kw starts, letter by letter.
Occ(t, kw) ==
    {i \in 1..(Len(t) - Len(kw) + 1) : \A j \in 1..Len(kw) : t[i + j - 1] = kw[j]}

RECURSIVE SumOcc(_, _)
SumOcc(t, n) ==
    IF n = 0 THEN 0 ELSE SumOcc(t, n - 1) + Cardinality(Occ(t, keywords[n]))

Distinct(t) == Cardinality({n \in 1..Len(keywords) : Occ(t, keywords[n]) # {}})

\* C8 as claimed: the keyword factor is clamp(0.05 * matchCount, 0, 0.3) where
\* matchCount counts every occurrence of a listed keyword in the lower-cased
\* text, and the result is always a number.
C8_CountsEveryOccurrence ==
    ret.fn = "keywords_factor" =>
        LET Claimed(t) == Num(Min(30000, 5000 * SumOcc(t, Len(keywords))))
        IN  ret.v = Eval(lower(args.text), Claimed)

\* C8 as amended: matchCount is the number of distinct listed keywords that occur
\* at least once in the lower-cased text (a keyword occurring twice counts once);
\* the result is always a number.
C8_CountsDistinctKeywords ==
    ret.fn = "keywords_factor" =>
        LET Amended(t) == Num(Min(30000, 5000 * Distinct(t)))
        IN  ret.v = Eval(lower(args.text), Amended)

\* C8 witness: a text with one keyword occurring twice has got the factor 0.05.
C8_Witness ==
    /\ ret.fn = "keywords_factor"
    /\ SumOcc(lower(args.text), Len(keywords)) = 2
    /\ Distinct(lower(args.text)) = 1
    /\ ret.v = Num(5000)

\* State part of C9.
C9_State ==
    /\ Len(provider_calls) <= 1
    /\ create_calls <= 1
    /\ pc \in {"idle", "received", "scored"} => provider_calls = <<>>
    /\ (pc = "signalled" \/ (pc = "responded" /\ scorer_calls # <<>>))
           => provider_calls =
                  <<IF AiConfigured THEN "ai_text_factor" ELSE "keywords_factor">>
    /\ provider_calls = <<"keywords_factor">> => create_calls = 0
    /\ pc = "signalled" => ai_active = AiConfigured
    /\ (response.kind = "render" /\ response.result.k = "dict")
           => response.ai_active = ai_active

TierRank(p) ==
    LET tier == risk_label(p)[1]
    IN  IF tier = "Alto" THEN 3 ELSE IF tier = "Intermedio" THEN 2 ELSE 1

\* C10: with the external variant inactive, base <= final <= min(1, base + 0.3)
\* for every base and notes text, so the keyword signal never lowers the tier;
\* with the external variant active and a present signal below base, final < base.
C10_KeywordNeverLowers ==
    /\ ret.fn = "keyword_path" =>
           /\ args.base <= ret.v
           /\ ret.v <= Min(ONE, args.base + 30000)
           /\ TierRank(ret.v) >= TierRank(args.base)
    /\ (/\ ret.fn = "combine_risk"
        /\ args.ai
        /\ args.t.k = "num"
        /\ args.t.v < args.base) => ret.v < args.base

\* C10 witness: seven keywords lift a base of 0.25 from Low to Intermediate, by
\* the capped 0.3.
C10_Witness ==
    /\ ret.fn = "keyword_path"
    /\ args.base = 25000
    /\ ret.v = 55000
    /\ TierRank(ret.v) > TierRank(args.base)
====
